---- MODULE Spec2Model ----
(***************************************************************************)
(* Ash-Vault backup service: the snapshot job (create + retention          *)
(* cleanup), the replication job (zfs send to Lofn) and the cloud sync job *)
(* (rclone to B2) of backup-service/src/jobs, the alert manager they       *)
(* report to, and the job policy of the scheduler that main.py sets up;    *)
(* with them the secrets manager, the two configuration managers and the   *)
(* status endpoint.                                                        *)
(*                                                                         *)
(* Spec has the snapshot and replication jobs on every pool, JobsSpec the  *)
(* three jobs under every alerting configuration, KeepUpSpec the nightly   *)
(* order of snapshot and replication runs, CatalogSpec the snapshot job on *)
(* a pool that holds foreign snapshots, SchedSpec the scheduler with one   *)
(* job and the shutdown of the process, SecretsSpec the calls of get,      *)
(* ConfigSpec the resolution of one key, StatusSpec the status endpoint    *)
(* next to runs and firings.                                               *)
(*                                                                         *)
(* The local pool and the remote pool are part of the state because every  *)
(* decision of the jobs is taken on the output of a zfs command.  A job    *)
(* run is a sequence of steps, one per external command (the only points   *)
(* at which a run blocks); what the code does between two commands         *)
(* (filtering, sorting, slicing, raising, alerting, returning) belongs to  *)
(* the step of the command before it.                                      *)
(***************************************************************************)
EXTENDS Integers, Sequences, FiniteSets, TLC

\* ------------------------------------------------------------------ bounds
MaxDay == 2
MaxLabel == 3
MaxKeep == 1
MaxRuns == 3
MaxTime == 54

\* --------------------------------------------------------------- constants
Classes == {"daily", "weekly", "monthly"}
SourceDataset == "syn/archives"
LofnDataset == "backup/ash-vault"
\* A dataset below the source dataset ("zfs list -r" descends into it).
ChildDataset == "syn/archives/child"
\* job_defaults of the scheduler; times are in hours.
MaxInstances == 1
MisfireGraceTime == 1
\* The trigger of the daily snapshot job, "0 3 * * *": every 24 hours, at 3.
Period == 24
FirstFire == 3

VARIABLES today, store, remote, retention, sj, rj, runs, pipe, alerting, sink,
          cj, sched, sm, cm, st

\* The secrets manager, the configuration manager and the status endpoint.
managers == <<sm, cm, st>>

\* What the snapshot and replication jobs never change.
others == <<alerting, sink, cj, sched, managers>>

vars == <<today, store, remote, retention, sj, rj, runs, pipe, others>>

\* ------------------------------------------------------------------- names
\* A snapshot name "<dataset>@<class>-<YYYY-MM-DD>"; the date is a day number.
SnapshotName(ds, c, d) == [ds |-> ds, cls |-> c, day |-> d]

\* Python's None.
None == [ds |-> "", cls |-> "", day |-> 0]

\* The part of a name after "@": "<class>-<date>".
Short(n) == [cls |-> n.cls, day |-> n.day]

\* A label that is not a date ("<class>-pre-upgrade"): a letter sorts after
\* every digit.
MalformedLabel == MaxLabel + MaxDay + 1

\* Position of a string among the strings it is compared with: the line of
\* a child dataset continues with "/" where the dataset's own continues
\* with "@", and "/" < "@".
DsRank(ds) ==
    IF ds = LofnDataset THEN 0 ELSE IF ds = ChildDataset THEN 1 ELSE 2
ClassRank(c) == IF c = "daily" THEN 0 ELSE IF c = "monthly" THEN 1 ELSE 2

\* a < b as Python compares the two name strings (character by character:
\* dataset, then class word, then ISO date).
NameLess(a, b) ==
    \/ DsRank(a.ds) < DsRank(b.ds)
    \/ /\ DsRank(a.ds) = DsRank(b.ds)
       /\ \/ ClassRank(a.cls) < ClassRank(b.cls)
          \/ /\ a.cls = b.cls
             /\ a.day < b.day

RECURSIVE Insert(_, _)
Insert(x, s) ==
    IF s = <<>> THEN <<x>>
    ELSE IF NameLess(x, Head(s)) THEN <<x>> \o s
    ELSE <<Head(s)>> \o Insert(x, Tail(s))

\* sorted(list)
RECURSIVE Sorted(_)
Sorted(s) == IF s = <<>> THEN <<>> ELSE Insert(Head(s), Sorted(Tail(s)))

Range(s) == {s[i] : i \in 1..Len(s)}

Remove(s, x) == SelectSeq(s, LAMBDA y : y # x)

Max(a, b) == IF a >= b THEN a ELSE b
Min(a, b) == IF a <= b THEN a ELSE b

\* list[:stop] with Python's slice rules (a negative stop counts from the end).
SliceTo(s, stop) ==
    LET n == Len(s)
        e == IF stop < 0 THEN Max(n + stop, 0) ELSE Min(stop, n)
    IN  SubSeq(s, 1, e)


\* ------------------------------------------------------------ zfs commands
\* "zfs list -t snapshot -o name -H -r <dataset>": the names in the pool's
\* own order (creation order).  _run_command gives (False, stderr) on a
\* non-zero exit, a timeout or an exception.
ZfsList(ok) == IF ok THEN store ELSE <<>>

\* "zfs snapshot <name>" fails when a snapshot of that name exists.
ZfsSnapshotSucceeds(ok, name) == ok /\ name \notin Range(store)

\* "zfs destroy <name>" fails when there is no such snapshot.
ZfsDestroySucceeds(ok, name) == ok /\ name \in Range(store)

\* ------------------------------------------------------------ snapshot job
\* A run of SnapshotJob._run_snapshot_job.  pc/trace follow the run; the
\* other fields record what the run did (commands issued, alert calls, the
\* returned value).  prev is the snapshot that the run before this one
\* created, when that run was of the same class and succeeded.
IdleSnapshotRun ==
    [pc |-> "Idle", cls |-> "", prev |-> None, name |-> None,
     create |-> "none", list |-> "none", listed |-> <<>>,
     selected |-> <<>>, queue |-> <<>>, destroys |-> <<>>,
     outcome |-> <<>>, delivery |-> <<>>, ret |-> "none", error |-> "none",
     trace |-> <<"Idle">>]

Goto(run, pc) == [run EXCEPT !.pc = pc, !.trace = Append(@, pc)]

\* A run that has returned.
Finished(run) == run.pc \in {"Done", "Failed"}

\* ------------------------------------------------------------ alert manager
\* AlertManager.__init__: the alerting section and the webhook secret.
DefaultAlerting ==
    [enabled |-> TRUE, on_success |-> FALSE, on_failure |-> TRUE,
     webhook |-> TRUE]

\* What the webhook does with a post.
SinkBehaviours == {"accepts", "rejects", "timeout"}

\* SendAlert with the exception of the post not caught.
SendAlert_Raises ==
    IF ~alerting.enabled \/ ~alerting.webhook THEN "skipped"
    ELSE IF sink = "accepts" THEN "sent" ELSE "raised"

\* send_alert: nothing is posted when alerting is disabled or there is no
\* webhook; an exception of the post (HTTP error status, timeout) is caught
\* and gives False.
SendAlert ==
    IF ~alerting.enabled \/ ~alerting.webhook THEN "skipped"
    ELSE IF sink = "accepts" THEN "sent" ELSE "failed"

\* backup_success without the on_backup_success switch.
BackupSuccess_Always == SendAlert

\* backup_success
BackupSuccess == IF ~alerting.on_success THEN "skipped" ELSE SendAlert

\* backup_failure
BackupFailure == IF ~alerting.on_failure THEN "skipped" ELSE SendAlert

\* The except block raises again after the alert call.
RunFailed_Raises(run, err) ==
    [Goto(run, "Failed") EXCEPT !.outcome = Append(@, "failure"),
                                !.delivery = Append(@, BackupFailure),
                                !.ret = "raised",
                                !.error = err]

\* except Exception: alert_manager.backup_failure(...); return False.  An
\* exception of backup_failure would leave the run method.
RunFailed(run, err) ==
    LET d == BackupFailure
    IN  [Goto(run, "Failed") EXCEPT !.outcome = Append(@, "failure"),
                                    !.delivery = Append(@, d),
                                    !.ret = IF d = "raised" THEN "raised" ELSE "false",
                                    !.error = err]

\* alert_manager.backup_success(...); return True.  The call is inside the
\* try block: an exception of it would end the run in the except block.
RunSucceeded(run) ==
    LET d == BackupSuccess
        called == [run EXCEPT !.outcome = Append(@, "success"),
                              !.delivery = Append(@, d)]
    IN  IF d = "raised" THEN RunFailed(called, "AlertError")
        ELSE [Goto(called, "Done") EXCEPT !.ret = "true"]

\* _list_snapshots: the lines containing "@<prefix>-", sorted.  The test is
\* on the text after "@" only: any dataset, any label.
ListSnapshots(output, prefix) ==
    Sorted(SelectSeq(output, LAMBDA n : n.cls = prefix))

\* _cleanup_old_snapshots, the selection: nothing when the list is within
\* the retention count, else snapshots[:-retention_count].
ToDelete(snapshots, retention_count) ==
    IF Len(snapshots) <= retention_count THEN <<>>
    ELSE SliceTo(snapshots, 0 - retention_count)

\* The entries of a list that are not selected, in the list's order.
Kept(snapshots, selected) ==
    SelectSeq(snapshots, LAMBDA n : n \notin Range(selected))

\* AfterCreate without the test of _create_snapshot's result.
AfterCreate_IgnoreResult(run, success) == Goto(run, "Pruning")

\* _run_snapshot_job after _create_snapshot returned.
AfterCreate(run, success) ==
    IF success THEN Goto(run, "Pruning")
    ELSE RunFailed(run, "CreateFailed")

\* The scheduler fires run_daily / run_weekly / run_monthly.
SnapStart(c) ==
    /\ sj.pc \in {"Idle", "Done", "Failed"}
    /\ runs < MaxRuns
    /\ sj' = Goto([IdleSnapshotRun EXCEPT
                     !.cls = c,
                     !.prev = IF sj.pc = "Done" /\ sj.cls = c THEN sj.name ELSE None],
                  "Creating")
    /\ runs' = runs + 1
    /\ UNCHANGED <<today, store, remote, retention, rj, pipe, others>>

\* _create_snapshot: the name is built from the date at that moment, then
\* "zfs snapshot" runs.
SnapCreate(ok) ==
    /\ sj.pc = "Creating"
    /\ LET name == SnapshotName(SourceDataset, sj.cls, today)
           success == ZfsSnapshotSucceeds(ok, name)
       IN  /\ store' = IF success THEN Append(store, name) ELSE store
           /\ sj' = AfterCreate([sj EXCEPT !.name = name,
                                           !.create = IF success THEN "ok" ELSE "failed"],
                                success)
    /\ UNCHANGED <<today, remote, retention, rj, runs, pipe, others>>

\* _cleanup_old_snapshots up to its first destroy: list, select.
SnapList(ok) ==
    /\ sj.pc = "Pruning"
    /\ sj.list = "none"
    /\ LET snapshots == ListSnapshots(ZfsList(ok), sj.cls)
           to_delete == ToDelete(snapshots, retention[sj.cls])
           run == [sj EXCEPT !.list = IF ok THEN "ok" ELSE "failed",
                             !.listed = snapshots,
                             !.selected = to_delete,
                             !.queue = to_delete]
       IN  sj' = IF to_delete = <<>> THEN RunSucceeded(run) ELSE run
    /\ UNCHANGED <<today, store, remote, retention, rj, runs, pipe, others>>

\* AfterDestroy with a failed destroy ending the run as failed.
AfterDestroy_AbortOnFailure(run, success) ==
    IF ~success THEN RunFailed([run EXCEPT !.queue = <<>>], "PruneFailed")
    ELSE IF run.queue = <<>> THEN RunSucceeded(run) ELSE run

\* _cleanup_old_snapshots after a destroy returned: the result is logged,
\* the loop goes on; after the last entry the run ends in success.
AfterDestroy(run, success) ==
    IF run.queue = <<>> THEN RunSucceeded(run) ELSE run

\* One pass of the loop over to_delete: "zfs destroy", result only logged.
SnapDestroy(ok) ==
    /\ sj.pc = "Pruning"
    /\ sj.list # "none"
    /\ sj.queue # <<>>
    /\ LET snapshot == Head(sj.queue)
           success == ZfsDestroySucceeds(ok, snapshot)
           run == [sj EXCEPT !.queue = Tail(@),
                             !.destroys = Append(@, [name |-> snapshot, ok |-> success])]
       IN  /\ store' = IF success THEN Remove(store, snapshot) ELSE store
           /\ sj' = AfterDestroy(run, success)
    /\ UNCHANGED <<today, remote, retention, rj, runs, pipe, others>>

\* --------------------------------------------------------- replication job
\* What a replication outcome says about the send: nothing before the run
\* has ended.
NoDetails == [send |-> "", snapshot |-> None, dest |-> ""]

\* The details passed to backup_success: "Replicated to <host>:<dataset>".
SuccessDetails(cmd) == [send |-> "", snapshot |-> None, dest |-> LofnDataset]

\* No send pipeline.
NoCmd == [kind |-> "none", base |-> Short(None), target |-> None]

\* How a send pipeline can end for subprocess.run.
SendResults == {"ok", "failed", "timeout"}

\* A run of ReplicationJob.run.  catalog is the output of the local listing
\* as the run read it; reply is what the remote query came back with.
IdleReplicationRun ==
    [pc |-> "Idle", list |-> "none", catalog |-> <<>>,
     local_latest |-> None, reply |-> "none", remote_latest |-> None,
     cmds |-> <<>>, details |-> NoDetails,
     outcome |-> <<>>, delivery |-> <<>>, ret |-> "none", error |-> "none",
     trace |-> <<"Idle">>]

\* GetLatestSnapshot without the "@daily-" filter.
GetLatestSnapshot_AnyClass(output) ==
    IF output = <<>> THEN None ELSE Sorted(output)[Len(output)]

\* _get_latest_snapshot on the listing's output: the lines containing
\* "@daily-", sorted, last one; None when there is none.
GetLatestSnapshot(output) ==
    LET snapshots == SelectSeq(output, LAMBDA n : n.cls = "daily")
    IN  IF snapshots = <<>> THEN None
        ELSE Sorted(snapshots)[Len(snapshots)]

\* ssh root@lofn "zfs list -t snapshot -o name -H -r <lofn_dataset>
\* 2>/dev/null | tail -1": the last line of the remote listing when the
\* remote is reached ("" when it has no snapshot), a failed command when not.
RemoteReply(reached) ==
    IF ~reached THEN "unreachable"
    ELSE IF remote = <<>> THEN "empty" ELSE "snapshot"

\* _get_remote_latest_snapshot: the name when the command succeeded with a
\* non-empty output containing "@", else None.
GetRemoteLatestSnapshot(reached) ==
    IF RemoteReply(reached) = "snapshot" THEN remote[Len(remote)] ELSE None

\* _do_initial_send's command: zfs send -w <snapshot> | ssh ... zfs recv -F
InitialSendCmd(snapshot) ==
    [kind |-> "full", base |-> Short(None), target |-> snapshot]

\* IncrementalSendCmd taking its base from the snapshot being sent.
IncrementalSendCmd_BaseFromTarget(from_snap, to_snap) ==
    [kind |-> "incremental", base |-> Short(to_snap), target |-> to_snap]

\* _do_incremental_send's command: zfs send -w -i @<from_snap_short> <to_snap>
IncrementalSendCmd(from_snap, to_snap) ==
    [kind |-> "incremental", base |-> Short(from_snap), target |-> to_snap]

\* run, lines 260-269: which send is made.
ChooseSend(remote_latest, local_latest) ==
    IF remote_latest # None
    THEN IncrementalSendCmd(remote_latest, local_latest)
    ELSE InitialSendCmd(local_latest)

Before(s, a, b) ==
    \E i, j \in 1..Len(s) : i < j /\ s[i] = a /\ s[j] = b

\* Whether the pipe "zfs send ... | ssh ... zfs recv -F <lofn_dataset>" can
\* go through: the target exists; a full stream is received only by a
\* dataset without snapshots; an incremental stream needs its base in the
\* source dataset, older than the target, and as the remote's most recent
\* snapshot.
SendCanSucceed(cmd) ==
    /\ cmd.target \in Range(store)
    /\ IF cmd.kind = "full" THEN remote = <<>>
       ELSE /\ remote # <<>>
            /\ Short(remote[Len(remote)]) = cmd.base
            /\ Before(store,
                      SnapshotName(cmd.target.ds, cmd.base.cls, cmd.base.day),
                      cmd.target)

\* AfterLocalLatest without the test for None.
AfterLocalLatest_NoCheck(run, local_latest) ==
    Goto([run EXCEPT !.local_latest = local_latest], "RemoteQuery")

\* run after _get_latest_snapshot returned.
AfterLocalLatest(run, local_latest) ==
    IF local_latest = None THEN RunFailed(run, "NoLocalSnapshot")
    ELSE Goto([run EXCEPT !.local_latest = local_latest], "RemoteQuery")

\* The scheduler fires replication_job.run.
ReplStart ==
    /\ rj.pc \in {"Idle", "Done", "Failed"}
    /\ runs < MaxRuns
    /\ rj' = Goto(IdleReplicationRun, "LocalQuery")
    /\ runs' = runs + 1
    /\ UNCHANGED <<today, store, remote, retention, sj, pipe, others>>

\* run, lines 250-253.
ReplLocalQuery(ok) ==
    /\ rj.pc = "LocalQuery"
    /\ LET output == ZfsList(ok)
       IN  rj' = AfterLocalLatest([rj EXCEPT !.list = IF ok THEN "ok" ELSE "failed",
                                             !.catalog = output],
                                  GetLatestSnapshot(output))
    /\ UNCHANGED <<today, store, remote, retention, sj, runs, pipe, others>>

\* run, line 258.
ReplRemoteQuery(reached) ==
    /\ rj.pc = "RemoteQuery"
    /\ rj' = Goto([rj EXCEPT !.reply = RemoteReply(reached),
                             !.remote_latest = GetRemoteLatestSnapshot(reached)],
                  "Sending")
    /\ UNCHANGED <<today, store, remote, retention, sj, runs, pipe, others>>

\* The remote after it has received the stream of a send.
Received(cmd) ==
    Append(remote, SnapshotName(LofnDataset, cmd.target.cls, cmd.target.day))

\* ReplSend issuing the send again after a timeout.
ReplSend_RetryOnTimeout(result) ==
    /\ rj.pc = "Sending"
    /\ LET cmd == ChooseSend(rj.remote_latest, rj.local_latest)
           success == result = "ok" /\ SendCanSucceed(cmd)
           run == [rj EXCEPT !.cmds = Append(@, cmd)]
       IN  /\ remote' = IF success THEN Received(cmd) ELSE remote
           /\ pipe' = pipe
           /\ rj' = IF success
                    THEN RunSucceeded([run EXCEPT !.details = SuccessDetails(cmd)])
                    ELSE IF result = "timeout" /\ Len(rj.cmds) = 0 THEN run
                    ELSE RunFailed(run, "TransferFailed")
    /\ UNCHANGED <<today, store, retention, sj, runs, others>>

\* run, lines 260-296: the send pipe and the end of the run.  The pipe is
\* run with shell=True and a timeout: on the timeout subprocess.run kills
\* the shell only and raises; "zfs send" and "ssh ... zfs recv" are left
\* running (one such pipeline is followed at a time).
ReplSend(result) ==
    /\ rj.pc = "Sending"
    /\ result = "timeout" => pipe = NoCmd
    /\ LET cmd == ChooseSend(rj.remote_latest, rj.local_latest)
           success == result = "ok" /\ SendCanSucceed(cmd)
           run == [rj EXCEPT !.cmds = Append(@, cmd)]
       IN  /\ remote' = IF success THEN Received(cmd) ELSE remote
           /\ pipe' = IF result = "timeout" THEN cmd ELSE pipe
           /\ rj' = IF success
                    THEN RunSucceeded([run EXCEPT !.details = SuccessDetails(cmd)])
                    ELSE RunFailed(run, "TransferFailed")
    /\ UNCHANGED <<today, store, retention, sj, runs, others>>

\* A pipeline left running by a timeout comes to its end.
PipeEnds(ok) ==
    /\ pipe # NoCmd
    /\ remote' = IF ok /\ SendCanSucceed(pipe) THEN Received(pipe) ELSE remote
    /\ pipe' = NoCmd
    /\ UNCHANGED <<today, store, retention, sj, rj, runs, others>>

\* ---------------------------------------------------------- cloud sync job
\* The commands of a cloud sync run, in the order run issues them.
CloudCommands == <<"lsd", "du", "sync">>

\* A run of CloudSyncJob.run.  cmds are the rclone and du commands the run
\* issued, check and sync are the results of the connectivity check and of
\* the transfer.
IdleCloudRun ==
    [pc |-> "Idle", cmds |-> <<>>, check |-> "none", size |-> "none",
     sync |-> "none", outcome |-> <<>>, delivery |-> <<>>, ret |-> "none", error |-> "none",
     trace |-> <<"Idle">>]

\* The scheduler fires cloud_sync_job.run.
CloudStart ==
    /\ cj.pc \in {"Idle", "Done", "Failed"}
    /\ runs < MaxRuns
    /\ cj' = Goto(IdleCloudRun, "Checking")
    /\ runs' = runs + 1
    /\ UNCHANGED <<today, store, remote, retention, sj, rj, pipe, alerting, sink, sched, managers>>

\* The run goes on to the transfer whatever the check returned.
AfterCheck_IgnoreResult(run, success) == Goto(run, "Sizing")

\* run, lines 151-153: a failed check raises.
AfterCheck(run, success) ==
    IF ~success THEN RunFailed(run, "RemoteUnreachable")
    ELSE Goto(run, "Sizing")

\* _check_rclone_config: "rclone lsd remote:" with a timeout of 60 s; a
\* non-zero exit, a timeout or any other exception gives False.
CloudCheck(ok) ==
    /\ cj.pc = "Checking"
    /\ cj' = AfterCheck([cj EXCEPT !.cmds = Append(@, CloudCommands[1]),
                                   !.check = IF ok THEN "ok" ELSE "failed"],
                        ok)
    /\ UNCHANGED <<today, store, remote, retention, sj, rj, runs, pipe, alerting, sink, sched, managers>>

\* _get_local_size: "du -sh"; the size is "unknown" when du fails.
CloudSize(ok) ==
    /\ cj.pc = "Sizing"
    /\ cj' = Goto([cj EXCEPT !.cmds = Append(@, CloudCommands[2]),
                             !.size = IF ok THEN "known" ELSE "unknown"],
                  "Syncing")
    /\ UNCHANGED <<today, store, remote, retention, sj, rj, runs, pipe, alerting, sink, sched, managers>>

\* _do_sync and the end of run, lines 158-187: "rclone sync" with a timeout
\* of two hours.
CloudSync(ok) ==
    /\ cj.pc = "Syncing"
    /\ LET run == [cj EXCEPT !.cmds = Append(@, CloudCommands[3]),
                             !.sync = IF ok THEN "ok" ELSE "failed"]
       IN  cj' = IF ok THEN RunSucceeded(run) ELSE RunFailed(run, "SyncFailed")
    /\ UNCHANGED <<today, store, remote, retention, sj, rj, runs, pipe, alerting, sink, sched, managers>>

\* --------------------------------------------------------------- scheduler
\* The BackgroundScheduler and one of its jobs.  now is the wall clock;
\* state is "running", "stalled" (the process is suspended, the scheduler
\* thread does not wake), "stopping" (a shutdown signal was handled, the
\* process is on its way out) or "down" (no process; how tells whether it
\* went by its own exit or was killed).  pending is the number of runs that
\* were in flight when the shutdown signal came.  next_run_time is the
\* job's entry in the in-memory job store (0: no entry), instances the
\* executor's count of running instances of the job.  started, finished,
\* dropped and skipped count the runs begun, the outcomes emitted, the
\* firings refused for max_instances and the run times given up as
\* misfires.  handled is the latest firing the scheduler has processed,
\* missed the latest firing that passed unprocessed while the scheduler
\* was not running (0: none) and owed what the misfire policy promises for
\* it once the scheduler is back.
StartedSched ==
    [now |-> 0, state |-> "running", next_run_time |-> FirstFire,
     instances |-> 0, started |-> 0, finished |-> 0, dropped |-> 0,
     skipped |-> 0, handled |-> 0, missed |-> 0, owed |-> "none",
     how |-> "none", pending |-> 0]

IsFireTime(t) == t >= FirstFire /\ (t - FirstFire) % Period = 0

\* CronTrigger.get_next_fire_time: the first fire time after t.
NextFireTime(t) ==
    CHOOSE f \in (t + 1)..(t + Period) :
        IsFireTime(f) /\ \A g \in (t + 1)..(f - 1) : ~ IsFireTime(g)

\* Job._get_run_times(now): the fire times from next_run_time up to now.
RunTimes(s) == {t \in s.next_run_time..s.now : IsFireTime(t)}

\* The run time handed to the executor: with coalesce the latest only.
CoalescedRunTime(s) == CHOOSE t \in RunTimes(s) : \A u \in RunTimes(s) : u <= t

\* run_job: a run time later than misfire_grace_time is given up, else the
\* job function is called.
RunJob(s, run_time) ==
    IF s.now - run_time > MisfireGraceTime
    THEN [s EXCEPT !.skipped = @ + 1]
    ELSE [s EXCEPT !.instances = @ + 1, !.started = @ + 1]

\* The executor takes the firing whatever the number of running instances.
SubmitJob_NoLimit(s, run_time) == RunJob(s, run_time)

\* BaseExecutor.submit_job: MaxInstancesReachedError when the job has
\* max_instances running; the scheduler logs the firing as skipped.
SubmitJob(s, run_time) ==
    IF s.instances >= MaxInstances THEN [s EXCEPT !.dropped = @ + 1]
    ELSE RunJob(s, run_time)

\* The latest firing not processed so far.
LatestMissed(s) ==
    IF IsFireTime(s.now) /\ s.handled < s.now THEN s.now ELSE s.missed

\* What the misfire policy promises when the scheduler is back.
Owed(s) ==
    IF LatestMissed(s) = 0 THEN "none"
    ELSE IF s.now - LatestMissed(s) <= MisfireGraceTime THEN "run"
    ELSE "skip"

SchedUnchanged ==
    UNCHANGED <<today, store, remote, retention, sj, rj, runs, pipe, alerting,
                sink, cj, managers>>

\* An hour passes.  A running scheduler wakes at next_run_time, so no hour
\* passes over a due job while it runs.
Tick ==
    /\ sched.now < MaxTime
    /\ sched.state = "running" => sched.now < sched.next_run_time
    /\ sched' = [sched EXCEPT
           !.now = @ + 1,
           !.missed = IF /\ sched.state # "running"
                         /\ IsFireTime(sched.now)
                         /\ sched.handled < sched.now
                      THEN sched.now ELSE @,
           !.owed = IF sched.state = "running" THEN "none" ELSE @]
    /\ SchedUnchanged

\* BaseScheduler._process_jobs for a due job.
ProcessJobs ==
    /\ sched.state = "running"
    /\ sched.next_run_time # 0
    /\ sched.next_run_time <= sched.now
    /\ sched' = [SubmitJob(sched, CoalescedRunTime(sched)) EXCEPT
           !.next_run_time = NextFireTime(sched.now),
           !.handled = CoalescedRunTime(sched),
           !.missed = 0,
           !.owed = "none"]
    /\ SchedUnchanged

\* The job function returns to the executor; the worker thread goes on
\* after the scheduler was shut down.
JobEnds ==
    /\ sched.state \in {"running", "stopping"}
    /\ sched.instances > 0
    /\ sched' = [sched EXCEPT !.instances = @ - 1, !.finished = @ + 1]
    /\ SchedUnchanged

\* The host suspends the process and lets it go on later.
Stall ==
    /\ sched.state = "running"
    /\ sched' = [sched EXCEPT !.state = "stalled"]
    /\ SchedUnchanged

Resume ==
    /\ sched.state = "stalled"
    /\ sched' = [sched EXCEPT !.state = "running",
                              !.owed = Owed(sched)]
    /\ SchedUnchanged

\* The signal handler stops the scheduler and the run it finds in flight.
AfterSignal_AbortsRun(s) ==
    [s EXCEPT !.state = "stopping", !.pending = s.instances, !.instances = 0]

\* signal_handler: scheduler.shutdown(wait=False) stops the scheduler
\* thread and closes the executor to new submissions without waiting;
\* sys.exit(0) then unwinds the main thread.
AfterSignal(s) == [s EXCEPT !.state = "stopping", !.pending = s.instances]

\* SIGINT or SIGTERM reaches the process.
Shutdown ==
    /\ sched.state = "running"
    /\ sched' = AfterSignal(sched)
    /\ SchedUnchanged

\* The interpreter exits: it joins the worker threads of the executor
\* first, so the process is gone only when no run is in flight.
Exit ==
    /\ sched.state = "stopping"
    /\ sched.instances = 0
    /\ sched' = [sched EXCEPT !.state = "down", !.next_run_time = 0,
                              !.how = "exit"]
    /\ SchedUnchanged

\* The process is killed (SIGKILL, power loss) and the service
\* is started again: main builds a new scheduler with an empty in-memory
\* job store, and add_job gives the job the first fire time from now (a
\* start takes time: it does not fall on the instant of a firing).
ProcessDown ==
    /\ sched.state # "down"
    /\ sched' = [sched EXCEPT !.state = "down", !.next_run_time = 0,
                              !.instances = 0, !.how = "killed"]
    /\ SchedUnchanged

ProcessUp ==
    /\ sched.state = "down"
    /\ sched' = [sched EXCEPT !.state = "running",
                              !.next_run_time = NextFireTime(sched.now),
                              !.owed = Owed(sched),
                              !.how = "none", !.pending = 0]
    /\ SchedUnchanged

\* --------------------------------------------------------- secrets manager
\* What a source of a secret holds: a value, nothing ("absent"), or, for
\* the two files, a file that cannot be read.
SecretValues == {"s1", "s2"}
Absent == "absent"
Unreadable == "unreadable"

\* Python's None as a secret value or a default.
NoValue == "None"

\* The defaults callers pass to get.
SecretDefaults == {NoValue, "d"}

\* No entry for the secret in _cache.
Uncached == "uncached"

\* SecretsManager.__init__ with the secret's sources as they are; default,
\* required and result are those of the last call of get.
NewSecrets(docker, local, env) ==
    [docker |-> docker, local |-> local, env |-> env, cache |-> Uncached,
     calls |-> 0, default |-> NoValue, required |-> FALSE, result |-> NoValue]

IdleSecrets == NewSecrets(Absent, Absent, Absent)

\* get below its cache test: the Docker secret file, then the local file,
\* then the environment variable, then the default; a file that cannot be
\* read is logged and passed over.
Lookup(s, default) ==
    IF s.docker \in SecretValues THEN s.docker
    ELSE IF s.local \in SecretValues THEN s.local
    ELSE IF s.env \in SecretValues THEN s.env
    ELSE default

\* SecretsManager.get: a cached entry is returned before anything is looked
\* at; what the lookup gives (the default included) is cached.
Get(s, default, required) ==
    LET value == Lookup(s, default)
        called == [s EXCEPT !.calls = @ + 1, !.default = default,
                            !.required = required]
    IN  IF s.cache # Uncached THEN [called EXCEPT !.result = s.cache]
        ELSE IF value = NoValue /\ required
        THEN [called EXCEPT !.result = "SecretNotFoundError"]
        ELSE [called EXCEPT !.cache = value, !.result = value]

SecretsUnchanged ==
    UNCHANGED <<today, store, remote, retention, sj, rj, runs, pipe, alerting,
                sink, cj, sched, cm, st>>

\* A caller asks for the secret.
SecretGet(default, required) ==
    /\ sm.calls < MaxRuns
    /\ sm' = Get(sm, default, required)
    /\ SecretsUnchanged

\* The operator writes, rotates or removes the local secret file.
SecretFileChanges(v) ==
    /\ sm.local # v
    /\ sm' = [sm EXCEPT !.local = v]
    /\ SecretsUnchanged

\* clear_cache
ClearCache ==
    /\ sm.cache # Uncached
    /\ sm' = [sm EXCEPT !.cache = Uncached]
    /\ SecretsUnchanged

\* ---------------------------------------------------- configuration manager
\* A value of the configuration: a JSON value of a file or what an
\* environment variable was converted to.  NoneValue is a key that is not
\* set, RefValue a string "${VAR}".
IntValue(i) == [t |-> "int", v |-> i]
BoolValue(b) == [t |-> "bool", v |-> b]
StrValue(w) == [t |-> "str", v |-> w]
NoneValue == [t |-> "none", v |-> 0]
RefValue == [t |-> "ref", v |-> 0]

\* The integers that values are drawn from.
ConfigInts == 0..(MaxKeep + 2)

\* Validation schemas with their defaults, as a section of default.json
\* declares them: a count with a range, a word with allowed values, a flag.
CountKey ==
    [type |-> "integer", range |-> <<1, MaxKeep + 1>>, allowed |-> {},
     default |-> IntValue(MaxKeep + 1)]
LevelKey ==
    [type |-> "string", range |-> <<>>, allowed |-> {"INFO", "DEBUG"},
     default |-> StrValue("INFO")]
FlagKey ==
    [type |-> "boolean", range |-> <<>>, allowed |-> {},
     default |-> BoolValue(TRUE)]
ConfigKeys == {CountKey, LevelKey, FlagKey}

\* What a file may hold for a key.
RawValues ==
    {NoneValue, RefValue} \cup {IntValue(i) : i \in ConfigInts}
      \cup {BoolValue(b) : b \in BOOLEAN}
      \cup {StrValue(w) : w \in {"INFO", "verbose"}}

\* What the environment variable of a "${VAR}" reference may hold; "unset"
\* is os.environ.get giving None.
EnvUnset == "unset"
EnvValues ==
    {EnvUnset, "INFO", "verbose", "true"} \cup {ToString(i) : i \in ConfigInts}

\* int(value): the integer a string of digits denotes; ValueError otherwise.
IsIntString(w) == \E i \in ConfigInts : ToString(i) = w
ParseInt(w) == CHOOSE i \in ConfigInts : ToString(i) = w

\* value.lower() in ("true", "1", "yes", "on")
IsTruthy(w) == w \in {"true", "1", "yes", "on"}

\* _convert_type: the string itself when the conversion fails.
ConvertType(value, expected_type) ==
    IF expected_type = "integer"
    THEN IF IsIntString(value) THEN IntValue(ParseInt(value)) ELSE StrValue(value)
    ELSE IF expected_type = "boolean" THEN BoolValue(IsTruthy(value))
    ELSE StrValue(value)

\* _check_type: isinstance; a Python bool is an int.
CheckType(value, expected_type) ==
    IF expected_type = "string" THEN value.t \in {"str", "ref"}
    ELSE IF expected_type = "integer" THEN value.t \in {"int", "bool"}
    ELSE IF expected_type = "boolean" THEN value.t = "bool"
    ELSE TRUE

\* The number a value compares as (True is 1, False is 0).
NumberOf(value) ==
    IF value.t = "bool" THEN (IF value.v THEN 1 ELSE 0) ELSE value.v

\* _validate_value: the value, or the default when the type, the range or
\* the allowed values are not met.
ValidateValue(value, validation, default) ==
    IF ~CheckType(value, validation.type) THEN default
    ELSE IF /\ validation.range # <<>>
            /\ validation.type = "integer"
            /\ ~(/\ validation.range[1] <= NumberOf(value)
                 /\ NumberOf(value) <= validation.range[2])
    THEN default
    ELSE IF /\ validation.allowed # {}
            /\ validation.type = "string"
            /\ value.v \notin validation.allowed
    THEN default
    ELSE value

\* _apply_env_overrides for one key: a "${VAR}" reference whose variable is
\* set is replaced by the converted value.
ApplyEnvOverrides(key, raw, env) ==
    IF raw = RefValue /\ env # EnvUnset THEN ConvertType(env, key.type)
    ELSE raw

\* _resolve_configuration for one key of the service's ConfigManager.
ResolveConfiguration(key, raw, env) ==
    LET overridden == ApplyEnvOverrides(key, raw, env)
        current_value ==
            IF overridden \in {RefValue, NoneValue} THEN key.default
            ELSE overridden
    IN  ValidateValue(current_value, key, key.default)

\* _load_configuration for one key of the backup service's ConfigManager:
\* only a "${VAR}" reference is looked at, the variable's value is converted
\* by the type of the default.
LoadConfiguration(key, raw, env) ==
    IF raw = RefValue /\ env # EnvUnset
    THEN IF key.default.t = "bool" THEN BoolValue(env \in {"true", "1", "yes"})
         ELSE IF key.default.t = "int"
         THEN IF IsIntString(env) THEN IntValue(ParseInt(env))
              ELSE key.default
         ELSE StrValue(env)
    ELSE key.default

IdleConfig == [loaded |-> "none"]

ConfigUnchanged ==
    UNCHANGED <<today, store, remote, retention, sj, rj, runs, pipe, alerting,
                sink, cj, sched, sm, st>>

\* The service builds its ConfigManager.
ConfigLoad(key, raw, env) ==
    /\ cm' = [loaded |-> "service", key |-> key, raw |-> raw, env |-> env,
              resolved |-> ResolveConfiguration(key, raw, env)]
    /\ ConfigUnchanged

\* The backup service builds its ConfigManager.
BackupConfigLoad(key, raw, env) ==
    /\ cm' = [loaded |-> "backup-service", key |-> key, raw |-> raw,
              env |-> env, resolved |-> LoadConfiguration(key, raw, env)]
    /\ ConfigUnchanged

\* ----------------------------------------------------------- status endpoint
\* The sections of the resolved configuration that the endpoint reads, with
\* the values of the emergency defaults.
LofnHost == "10.20.30.253"
B2Bucket == "ash-vault-backup"
SshKeyPath == "/root/.ssh/id_ed25519_lofn"
ResolvedConfig ==
    [zfs |-> [dataset |-> SourceDataset],
     replication |-> [lofn_host |-> LofnHost, lofn_dataset |-> LofnDataset,
                      ssh_key_path |-> SshKeyPath],
     b2 |-> [bucket |-> B2Bucket]]

\* The entry of the response for the job that the scheduler holds.
ScheduledJob(s) ==
    [id |-> "snapshot_daily", name |-> "Daily ZFS Snapshot",
     next_run |-> s.next_run_time]

\* status: the response without its clock fields (timestamp, uptime) and
\* the version.
StatusResponse(s, config) ==
    [status |-> "healthy",
     service |-> "ash-vault-backup",
     scheduler |-> [running |-> s.state # "stopping",
                    jobs |-> <<ScheduledJob(s)>>],
     configuration |->
        [zfs_dataset |-> config.zfs.dataset,
         lofn_target |-> <<config.replication.lofn_host,
                           config.replication.lofn_dataset>>,
         b2_bucket |-> config.b2.bucket]]

\* No request yet.
IdleStatus == [asked |-> FALSE]

StatusUnchanged ==
    UNCHANGED <<today, store, remote, retention, sj, rj, runs, pipe, alerting,
                sink, cj, sched, sm, cm>>

\* A status that tells of the last run of the cloud job.
StatusRequest_ReportsLastRun ==
    /\ sched.state \in {"running", "stalled"}
    /\ st' = [asked |-> TRUE, seen |-> cj.pc,
              response |-> [StatusResponse(sched, ResolvedConfig) EXCEPT
                              !.status = IF cj.pc = "Failed" THEN "degraded"
                                         ELSE "healthy"]]
    /\ StatusUnchanged

\* GET /status while the process serves requests; seen is where the cloud
\* job stands when the request comes.
StatusRequest ==
    /\ sched.state \in {"running", "stalled"}
    /\ st' = [asked |-> TRUE, seen |-> cj.pc,
              response |-> StatusResponse(sched, ResolvedConfig)]
    /\ StatusUnchanged

IdleManagers ==
    /\ sm = IdleSecrets
    /\ cm = IdleConfig
    /\ st = IdleStatus

\* ------------------------------------------------------------- environment
\* Midnight.
NextDay ==
    /\ today < MaxDay
    /\ today' = today + 1
    /\ UNCHANGED <<store, remote, retention, sj, rj, runs, pipe, others>>

\* ----------------------------------------------------------- specification
RECURSIVE SeqOf(_)
SeqOf(S) ==
    IF S = {} THEN <<>>
    ELSE LET x == CHOOSE y \in S : TRUE IN Insert(x, SeqOf(S \ {x}))

\* The daily snapshots the pool may hold when the service starts, oldest
\* first.
InitStores ==
    {SeqOf(S) : S \in SUBSET {SnapshotName(SourceDataset, "daily", d) : d \in 1..MaxLabel}}

\* The retention section of the configuration: one count for the three
\* classes.
InitRetentions == {[c \in Classes |-> k] : k \in 0..MaxKeep}

Init ==
    /\ today = 1
    /\ store \in InitStores
    /\ remote = <<>>
    /\ retention \in InitRetentions
    /\ sj = IdleSnapshotRun
    /\ rj = IdleReplicationRun
    /\ runs = 0
    /\ pipe = NoCmd
    /\ alerting = DefaultAlerting
    /\ sink = "accepts"
    /\ IdleManagers
    /\ cj = IdleCloudRun
    /\ sched = StartedSched

Next ==
    \/ \E c \in Classes : SnapStart(c)
    \/ \E ok \in BOOLEAN : SnapCreate(ok)
    \/ \E ok \in BOOLEAN : SnapList(ok)
    \/ \E ok \in BOOLEAN : SnapDestroy(ok)
    \/ ReplStart
    \/ \E ok \in BOOLEAN : ReplLocalQuery(ok)
    \/ \E reached \in BOOLEAN : ReplRemoteQuery(reached)
    \/ \E result \in SendResults : ReplSend(result)
    \/ \E ok \in BOOLEAN : PipeEnds(ok)
    \/ NextDay

Spec == Init /\ [][Next]_vars

\* The runs of the three jobs within one day, under every alerting
\* configuration and every behaviour of the webhook, on a pool that holds
\* the daily snapshots of the days before.
Alertings ==
    [enabled : BOOLEAN, on_success : BOOLEAN, on_failure : BOOLEAN,
     webhook : BOOLEAN]

JobsInit ==
    /\ today = MaxDay
    /\ store = SeqOf({SnapshotName(SourceDataset, "daily", d) : d \in 1..(MaxDay - 1)})
    /\ remote = <<>>
    /\ retention = [c \in Classes |-> MaxKeep]
    /\ sj = IdleSnapshotRun
    /\ rj = IdleReplicationRun
    /\ cj = IdleCloudRun
    /\ sched = StartedSched
    /\ runs = 0
    /\ pipe = NoCmd
    /\ alerting \in Alertings
    /\ sink \in SinkBehaviours
    /\ IdleManagers

JobsNext ==
    \/ \E c \in Classes : SnapStart(c)
    \/ \E ok \in BOOLEAN : SnapCreate(ok)
    \/ \E ok \in BOOLEAN : SnapList(ok)
    \/ \E ok \in BOOLEAN : SnapDestroy(ok)
    \/ ReplStart
    \/ \E ok \in BOOLEAN : ReplLocalQuery(ok)
    \/ \E reached \in BOOLEAN : ReplRemoteQuery(reached)
    \/ \E result \in SendResults : ReplSend(result)
    \/ \E ok \in BOOLEAN : PipeEnds(ok)
    \/ CloudStart
    \/ \E ok \in BOOLEAN : CloudCheck(ok)
    \/ \E ok \in BOOLEAN : CloudSize(ok)
    \/ \E ok \in BOOLEAN : CloudSync(ok)

JobsSpec == JobsInit /\ [][JobsNext]_vars

\* The daily snapshot job and the replication job run one after the other,
\* replication keeping up: a daily snapshot run that succeeded is followed
\* by a replication run before the next daily snapshot run starts.
ReplicatedSince == Finished(rj) /\ rj.list = "ok" /\ rj.catalog = store

KeepUpSnapStart ==
    /\ rj.pc \in {"Idle", "Done", "Failed"}
    /\ sj.pc = "Done" => ReplicatedSince
    /\ SnapStart("daily")

KeepUpReplStart ==
    /\ sj.pc \in {"Idle", "Done", "Failed"}
    /\ ReplStart

KeepUpInit ==
    /\ today = 1
    /\ store \in InitStores
    /\ remote = <<>>
    /\ retention \in {[c \in Classes |-> k] : k \in 1..MaxKeep}
    /\ sj = IdleSnapshotRun
    /\ rj = IdleReplicationRun
    /\ cj = IdleCloudRun
    /\ sched = StartedSched
    /\ runs = 0
    /\ pipe = NoCmd
    /\ alerting = DefaultAlerting
    /\ sink = "accepts"
    /\ IdleManagers

KeepUpNext ==
    \/ KeepUpSnapStart
    \/ \E ok \in BOOLEAN : SnapCreate(ok)
    \/ \E ok \in BOOLEAN : SnapList(ok)
    \/ \E ok \in BOOLEAN : SnapDestroy(ok)
    \/ KeepUpReplStart
    \/ \E ok \in BOOLEAN : ReplLocalQuery(ok)
    \/ \E reached \in BOOLEAN : ReplRemoteQuery(reached)
    \/ \E result \in SendResults : ReplSend(result)
    \/ \E ok \in BOOLEAN : PipeEnds(ok)
    \/ NextDay

KeepUpSpec == KeepUpInit /\ [][KeepUpNext]_vars

\* The scheduler with one job, the jobs themselves left out.
\* The snapshot job over a pool that also holds what the job did not make:
\* snapshots of a child dataset, a snapshot whose label is not a date, a
\* snapshot of another class.
CatalogNames ==
    {SnapshotName(ds, "daily", d) : ds \in {SourceDataset, ChildDataset}, d \in 1..MaxDay}
      \cup {SnapshotName(SourceDataset, "daily", MalformedLabel),
            SnapshotName(SourceDataset, "weekly", 1)}

CatalogInit ==
    /\ today = MaxDay
    /\ store \in {SeqOf(S) : S \in SUBSET CatalogNames}
    /\ remote = <<>>
    /\ retention \in InitRetentions
    /\ sj = IdleSnapshotRun
    /\ rj = IdleReplicationRun
    /\ cj = IdleCloudRun
    /\ sched = StartedSched
    /\ runs = 0
    /\ pipe = NoCmd
    /\ alerting = DefaultAlerting
    /\ sink = "accepts"
    /\ IdleManagers

CatalogNext ==
    \/ \E c \in Classes : SnapStart(c)
    \/ \E ok \in BOOLEAN : SnapCreate(ok)
    \/ \E ok \in BOOLEAN : SnapList(ok)
    \/ \E ok \in BOOLEAN : SnapDestroy(ok)

CatalogSpec == CatalogInit /\ [][CatalogNext]_vars

\* The secrets manager in a process whose secret sources hold anything.
SecretsInit ==
    /\ today = 1
    /\ store = <<>>
    /\ remote = <<>>
    /\ retention = [c \in Classes |-> MaxKeep]
    /\ sj = IdleSnapshotRun
    /\ rj = IdleReplicationRun
    /\ cj = IdleCloudRun
    /\ sched = StartedSched
    /\ runs = 0
    /\ pipe = NoCmd
    /\ alerting = DefaultAlerting
    /\ sink = "accepts"
    /\ sm \in {NewSecrets(d, l, e) :
                 d \in SecretValues \cup {Absent, Unreadable},
                 l \in SecretValues \cup {Absent, Unreadable},
                 e \in SecretValues \cup {Absent}}
    /\ cm = IdleConfig
    /\ st = IdleStatus

SecretsNext ==
    \/ \E default \in SecretDefaults, required \in BOOLEAN :
          SecretGet(default, required)
    \/ \E v \in SecretValues \cup {Absent, Unreadable} : SecretFileChanges(v)
    \/ ClearCache

SecretsSpec == SecretsInit /\ [][SecretsNext]_vars

\* The two configuration managers over every key, file value and
\* environment value.
ConfigInit ==
    /\ today = 1
    /\ store = <<>>
    /\ remote = <<>>
    /\ retention = [c \in Classes |-> MaxKeep]
    /\ sj = IdleSnapshotRun
    /\ rj = IdleReplicationRun
    /\ cj = IdleCloudRun
    /\ sched = StartedSched
    /\ runs = 0
    /\ pipe = NoCmd
    /\ alerting = DefaultAlerting
    /\ sink = "accepts"
    /\ IdleManagers

ConfigNext ==
    \/ \E key \in ConfigKeys, raw \in RawValues, env \in EnvValues :
          ConfigLoad(key, raw, env)
    \/ \E key \in ConfigKeys, raw \in RawValues, env \in EnvValues :
          BackupConfigLoad(key, raw, env)

ConfigSpec == ConfigInit /\ [][ConfigNext]_vars

\* The status endpoint next to the scheduler and the runs of the cloud job,
\* in a process that holds secrets.
StatusInit ==
    /\ today = 1
    /\ store = <<>>
    /\ remote = <<>>
    /\ retention = [c \in Classes |-> MaxKeep]
    /\ sj = IdleSnapshotRun
    /\ rj = IdleReplicationRun
    /\ cj = IdleCloudRun
    /\ sched = StartedSched
    /\ runs = 0
    /\ pipe = NoCmd
    /\ alerting = DefaultAlerting
    /\ sink = "accepts"
    /\ sm = NewSecrets("s1", Absent, "s2")
    /\ cm = IdleConfig
    /\ st = IdleStatus

StatusNext ==
    \/ CloudStart
    \/ \E ok \in BOOLEAN : CloudCheck(ok)
    \/ \E ok \in BOOLEAN : CloudSize(ok)
    \/ \E ok \in BOOLEAN : CloudSync(ok)
    \/ Tick
    \/ ProcessJobs
    \/ JobEnds
    \/ StatusRequest

StatusSpec == StatusInit /\ [][StatusNext]_vars

SchedInit ==
    /\ today = 1
    /\ store = <<>>
    /\ remote = <<>>
    /\ retention = [c \in Classes |-> MaxKeep]
    /\ sj = IdleSnapshotRun
    /\ rj = IdleReplicationRun
    /\ cj = IdleCloudRun
    /\ sched = StartedSched
    /\ runs = 0
    /\ pipe = NoCmd
    /\ alerting = DefaultAlerting
    /\ sink = "accepts"
    /\ IdleManagers

SchedNext ==
    \/ Tick
    \/ ProcessJobs
    \/ JobEnds
    \/ Stall
    \/ Resume
    \/ Shutdown
    \/ Exit
    \/ ProcessDown
    \/ ProcessUp

SchedSpec == SchedInit /\ [][SchedNext]_vars

\* ------------------------------------------------------------- properties
Labels(catalog) == {Short(n) : n \in Range(catalog)}

Dailies(catalog) == {n \in Range(catalog) : n.cls = "daily"}

\* The daily snapshot of a catalog with the latest date.
LatestDaily(catalog) ==
    CHOOSE n \in Dailies(catalog) : \A m \in Dailies(catalog) : m.day <= n.day

\* C1: a replication run to which the remote reported a latest snapshot
\* whose label is not in the local catalog fails with DivergedHistory and
\* issues no transfer command, incremental or full.
C1_DivergenceDetected ==
    (/\ Finished(rj)
     /\ rj.reply = "snapshot"
     /\ Short(rj.remote_latest) \notin Labels(rj.catalog))
    => (rj.error = "DivergedHistory" /\ rj.cmds = <<>>)

\* C2: a replication run whose remote query failed ends with
\* RemoteUnreachable and without a full send; a full send is issued only
\* when the remote was reached and reported no snapshot.
C2_UnreachableNotEmpty ==
    /\ (Finished(rj) /\ rj.reply = "unreachable")
          => rj.error = "RemoteUnreachable"
    /\ \A i \in 1..Len(rj.cmds) :
          rj.cmds[i].kind = "full" => rj.reply = "empty"

\* C3: for a keep-count k and a listed catalog of n snapshots of the class,
\* the snapshots selected for deletion are the first max(0, n-k) of the
\* catalog and the ones left are its last min(n, k), in the same order.
C3_SelectForDeletion ==
    sj.list = "ok" =>
        LET n == Len(sj.listed)
            k == retention[sj.cls]
        IN  /\ Len(sj.selected) = Max(0, n - k)
            /\ sj.selected = SubSeq(sj.listed, 1, Max(0, n - k))
            /\ Kept(sj.listed, sj.selected)
                 = SubSeq(sj.listed, n - Min(n, k) + 1, n)

\* C4: after a snapshot run of a class with keep-count 0 in which the
\* creation and every destroy succeeded, the pool holds no snapshot of that
\* class.
C4_KeepZeroRetainsNone ==
    (/\ sj.pc = "Done"
     /\ retention[sj.cls] = 0
     /\ sj.create = "ok"
     /\ sj.list = "ok"
     /\ \A i \in 1..Len(sj.destroys) : sj.destroys[i].ok)
    => ~ \E n \in Range(store) : n.cls = sj.cls

\* C5: a snapshot run whose create command failed went Idle, Creating,
\* Failed, issued no listing and no destroy, emitted one failure outcome and
\* returned failure.
C5_NoPruneAfterFailedCreate ==
    sj.create = "failed" =>
        /\ sj.trace = <<"Idle", "Creating", "Failed">>
        /\ sj.list = "none"
        /\ sj.destroys = <<>>
        /\ sj.outcome = <<"failure">>
        /\ sj.ret = "false"

\* A run failed at creation while the class held more snapshots than its
\* keep-count, so that a cleanup would have had something to destroy.
C5_Witness ==
    /\ sj.create = "failed"
    /\ sj.pc = "Failed"
    /\ Len(ListSnapshots(store, sj.cls)) > retention[sj.cls]
    /\ retention[sj.cls] > 0

\* C6: a snapshot run that follows a successful run of the same class on
\* the same day leaves exactly one snapshot of that day's name, treats the
\* existing snapshot as success, still does the pruning and returns success.
C6_SecondRunIsNoOp ==
    (/\ Finished(sj)
     /\ sj.prev # None
     /\ sj.name = sj.prev)
    => /\ Len(SelectSeq(store, LAMBDA n : n = sj.name)) = 1
       /\ sj.list # "none"
       /\ sj.outcome = <<"success">>
       /\ sj.ret = "true"

C8_TargetIsLatestOfAllClasses ==
    \A i \in 1..Len(rj.cmds) :
        /\ rj.cmds[i].target \in Range(rj.catalog)
        /\ \A n \in Range(rj.catalog) : n.day <= rj.cmds[i].target.day

\* C8 (amended): the snapshot chosen as the send target is the most recent
\* daily snapshot of the local catalog, none when it has no daily snapshot;
\* every send of the run has that daily snapshot as its target.
C8_TargetIsLatestDaily ==
    rj.list = "ok" =>
        /\ rj.local_latest = IF Dailies(rj.catalog) = {} THEN None
                             ELSE LatestDaily(rj.catalog)
        /\ \A i \in 1..Len(rj.cmds) :
              /\ rj.cmds[i].target = rj.local_latest
              /\ rj.cmds[i].target.cls = "daily"

\* A send was issued for a daily snapshot although the catalog held a
\* weekly or monthly snapshot newer than every daily one.
C8_Witness ==
    /\ rj.cmds # <<>>
    /\ \E n \in Range(rj.catalog) :
          /\ n.cls # "daily"
          /\ \A m \in Dailies(rj.catalog) : m.day < n.day

\* C9: a replication run whose local listing succeeded and held no
\* snapshot fails with NoLocalSnapshot, issues no transfer command and
\* emits one failure outcome.
C9_NoLocalSnapshot ==
    (rj.list = "ok" /\ rj.catalog = <<>>) =>
        /\ rj.pc = "Failed"
        /\ rj.error = "NoLocalSnapshot"
        /\ rj.reply = "none"
        /\ rj.cmds = <<>>
        /\ rj.outcome = <<"failure">>
        /\ rj.ret = "false"

\* A replication run read an empty local catalog.
C9_Witness ==
    /\ rj.list = "ok"
    /\ rj.catalog = <<>>
    /\ rj.pc = "Failed"

\* C10: a failed listing is reported as EnumerationFailed: the snapshot run
\* does not return success on it, and the replication run does not report
\* that there is no local snapshot.
C10_EnumerationFailedSurfaced ==
    /\ sj.list = "failed" =>
          (sj.error = "EnumerationFailed" /\ sj.ret # "true")
    /\ rj.list = "failed" =>
          (rj.error = "EnumerationFailed" /\ rj.error # "NoLocalSnapshot")

\* C11: a snapshot run that has issued a destroy, or has ended in success
\* through Pruning, has before that observed its new snapshot in a listing
\* of the store; the success of the create command alone does not start
\* the pruning.
C11_PruningAfterConfirmation ==
    (sj.destroys # <<>> \/ sj.pc = "Done") =>
        /\ sj.list = "ok"
        /\ sj.name \in Range(sj.listed)

DestroyedNames(run) == [i \in 1..Len(run.destroys) |-> run.destroys[i].name]

\* C12: the destroys issued by a run are the entries selected for deletion,
\* in their order (oldest first), one destroy per entry; a run that has
\* gone through its deletion set ends in success whatever destroys failed.
C12_BestEffortPruning ==
    /\ sj.pc = "Pruning" =>
          DestroyedNames(sj) \o sj.queue = sj.selected
    /\ (sj.pc = "Done" /\ sj.list # "none") =>
          /\ DestroyedNames(sj) = sj.selected
          /\ sj.outcome = <<"success">>
          /\ sj.ret = "true"
    /\ sj.destroys # <<>> => sj.pc \in {"Pruning", "Done"}

\* A run ended in success after two destroys of which the first failed.
C12_Witness ==
    /\ sj.pc = "Done"
    /\ Len(sj.destroys) >= 2
    /\ ~ sj.destroys[1].ok
    /\ sj.destroys[2].ok

\* C13: a transfer that fails or times out ends the run with one failure
\* outcome, no success outcome and the return value False, leaves the
\* remote's snapshots as they were before the send, and they stay so for
\* as long as that failed run is the last replication run; the next run
\* starts from a fresh record.
C13_FailedTransferLeavesRemote ==
    [][ /\ (rj.pc = "Sending" /\ rj'.pc = "Failed") =>
              /\ remote' = remote
              /\ rj'.outcome = <<"failure">>
              /\ rj'.ret = "false"
        /\ (rj.pc = "Failed" /\ rj.error = "TransferFailed" /\ rj' = rj) =>
              remote' = remote
        /\ (rj.pc = "Failed" /\ rj' # rj) =>
              rj' = Goto(IdleReplicationRun, "LocalQuery") ]_vars

\* C19: the success outcome of a replication run records the kind of the
\* send (full or incremental) and the snapshot that was shipped.
C19_OutcomeRecordsSend ==
    rj.pc = "Done" =>
        /\ rj.details.send = rj.cmds[1].kind
        /\ rj.details.snapshot = rj.cmds[1].target

\* The three job runs.
JobRuns == {sj, rj, cj}

\* C20: a cloud sync run whose connectivity check failed ends in failure
\* with RemoteUnreachable, having issued the check and nothing else; the
\* sync command is issued only after the check of the same run succeeded.
C20_CloudSyncFailsFast ==
    /\ cj.check = "failed" =>
           /\ cj.pc = "Failed"
           /\ cj.error = "RemoteUnreachable"
           /\ cj.cmds = <<"lsd">>
           /\ cj.outcome = <<"failure">>
    /\ \A i \in 1..Len(cj.cmds) :
           cj.cmds[i] = "sync" => (cj.check = "ok" /\ i > 1 /\ cj.cmds[1] = "lsd")

C20_Witness ==
    /\ cj.pc = "Failed"
    /\ cj.check = "failed"
    /\ sj.pc = "Done"

\* C16: a finished run of any of the three jobs has returned True or
\* False, False when it failed, and no exception has left it; after a
\* failed run the scheduler can fire every job that is not running, the
\* failed one included.
C16_NoFailureEscapes ==
    /\ \A run \in JobRuns :
           /\ Finished(run) => run.ret \in {"true", "false"}
           /\ run.pc = "Failed" => run.ret = "false"
           /\ ~ Finished(run) => run.ret = "none"
    /\ ((\E run \in JobRuns : run.pc = "Failed") /\ runs < MaxRuns) =>
           /\ Finished(sj) => ENABLED SnapStart("daily")
           /\ Finished(rj) => ENABLED ReplStart
           /\ Finished(cj) => ENABLED CloudStart

C16_Witness ==
    /\ sj.pc = "Failed"
    /\ rj.pc = "Failed" /\ rj.error = "TransferFailed"
    /\ cj.pc = "Failed" /\ cj.error = "SyncFailed"

\* C17: the value a run returns is decided by the results of its commands
\* alone, whatever the alerting configuration and whatever the webhook does
\* with the post: a snapshot run returns True exactly when the create
\* succeeded, a replication run exactly when its send changed the remote,
\* a cloud sync run exactly when check and sync succeeded; a delivery never
\* raises into the run.
C17_DeliveryNeverChangesResult ==
    [][ /\ (~ Finished(sj) /\ Finished(sj')) =>
               sj'.ret = IF sj'.create = "ok" THEN "true" ELSE "false"
        /\ (~ Finished(rj) /\ Finished(rj')) =>
               rj'.ret = IF remote' # remote THEN "true" ELSE "false"
        /\ (~ Finished(cj) /\ Finished(cj')) =>
               cj'.ret = IF cj'.check = "ok" /\ cj'.sync = "ok" THEN "true"
                         ELSE "false"
        /\ \A run \in {sj', rj', cj'} : \A i \in 1..Len(run.delivery) :
               run.delivery[i] \in {"sent", "failed", "skipped"} ]_vars

C17_Witness ==
    /\ sink # "accepts"
    /\ sj.pc = "Done" /\ sj.delivery = <<"failed">>
    /\ rj.pc = "Failed" /\ rj.delivery = <<"failed">>
    /\ cj.pc = "Done" /\ cj.delivery = <<"failed">>

\* The outcomes of a run that were posted to the webhook, delivered or not.
Posted(run) ==
    LET Idx == {i \in 1..Len(run.delivery) : run.delivery[i] # "skipped"}
    IN  [i \in 1..Cardinality(Idx) |-> run.outcome[i]]

\* The outcome that matches the value a finished run returned.
OutcomeOf(run) == IF run.ret = "true" THEN "success" ELSE "failure"

Firing == sched.state = "running" /\ sched'.next_run_time > sched.next_run_time

\* C14: the job never has more than one running instance; a firing that is
\* processed while an instance runs is dropped (no run is started for it,
\* then or when the running instance ends), so the runs started, and the
\* outcomes emitted, are the firings that were not dropped.
C14_AtMostOneInstance ==
    [][ /\ sched'.instances <= 1
        /\ (Firing /\ sched.instances >= 1) =>
               /\ sched'.started = sched.started
               /\ sched'.instances = sched.instances
               /\ sched'.dropped = sched.dropped + 1
        /\ sched'.started # sched.started => (Firing /\ sched.instances = 0)
        /\ sched'.finished <= sched'.started ]_vars

C14_Witness ==
    /\ sched.dropped = 1
    /\ sched.started = 1
    /\ sched.finished = 1

\* C15: once the scheduler is back after it missed firings, the job runs
\* once before time moves on when the latest missed firing is within the
\* grace time, and no run is started for the missed firings when it is
\* not.
C15_MisfirePolicy ==
    [][ /\ (sched.state = "running" /\ sched.owed = "run") =>
               /\ sched'.now = sched.now
               /\ (Firing /\ sched.instances = 0) =>
                      sched'.started = sched.started + 1
        /\ sched.owed = "skip" => sched'.started = sched.started ]_vars

\* C27: with a keep-count of at least one, a snapshot run that has reported
\* success leaves the snapshot it created in the pool.
C27_NewSnapshotSurvives ==
    (sj.pc = "Done" /\ retention[sj.cls] >= 1) => sj.name \in Range(store)

\* C29: no replication run issues an incremental send whose base is the
\* snapshot it sends.
C29_BaseDiffersFromTarget ==
    \A i \in 1..Len(rj.cmds) :
        rj.cmds[i].kind = "incremental" =>
            rj.cmds[i].base # Short(rj.cmds[i].target)

\* C30: when one daily snapshot run and one replication run are all that
\* runs, with a daily keep-count of at least one, the snapshot that the
\* replication run sends, and the base of an incremental send, are in the
\* pool when the send command is issued.
C30_SendTargetStillExists ==
    [][ ( /\ runs <= 2
          /\ sj.cls \in {"", "daily"}
          /\ retention["daily"] >= 1
          /\ rj.pc = "Sending"
          /\ rj'.pc # "Sending" ) =>
            /\ rj'.cmds[1].target \in Range(store)
            /\ rj'.cmds[1].kind = "incremental" =>
                   \E n \in Range(store) : Short(n) = rj'.cmds[1].base ]_vars

\* The number of times a run was at a step.
Times(run, pc) == Cardinality({i \in 1..Len(run.trace) : run.trace[i] = pc})

\* C26: in a run every external command is issued at most once (the create,
\* each selected destroy, the listings, the remote query, the send pipe,
\* the connectivity check, du and the sync), and a send pipe that times out
\* ends the run as a send with a non-zero exit does: failed with
\* TransferFailed after that one command.
C26_TimeoutIsFailure ==
    [][ /\ Times(sj', "Creating") <= 1
        /\ \A i, j \in 1..Len(sj'.destroys) :
               sj'.destroys[i].name = sj'.destroys[j].name => i = j
        /\ Len(sj'.destroys) <= Len(sj'.selected)
        /\ Times(rj', "LocalQuery") <= 1
        /\ Times(rj', "RemoteQuery") <= 1
        /\ Len(rj'.cmds) <= 1
        /\ cj'.cmds = SubSeq(CloudCommands, 1, Len(cj'.cmds))
        /\ (rj.pc = "Sending" /\ rj' # rj /\ remote' = remote) =>
               rj' = RunFailed([rj EXCEPT !.cmds =
                                   <<ChooseSend(rj.remote_latest, rj.local_latest)>>],
                               "TransferFailed")
        /\ (sj.pc = "Creating" /\ sj' # sj /\ store' = store) =>
               sj'.pc = "Failed"
        /\ (cj.pc \in {"Checking", "Syncing"} /\ cj' # cj /\ cj'.pc # "Sizing"
              /\ cj'.pc # "Done") => cj'.pc = "Failed" ]_vars

C26_Witness ==
    /\ pipe # NoCmd
    /\ rj.pc = "Failed" /\ rj.cmds = <<pipe>>
    /\ cj.pc = "Failed" /\ cj.sync = "failed"
    /\ sj.pc = "Done" /\ \E i \in 1..Len(sj.destroys) : ~ sj.destroys[i].ok

\* C28: with a daily keep-count of at least one and replication keeping
\* up, the remote's latest snapshot is in the local pool whenever a
\* replication run starts.
C28_BaseKeptWhileKeepingUp ==
    [][ (rj.pc # "LocalQuery" /\ rj'.pc = "LocalQuery" /\ remote # <<>>) =>
            \E n \in Range(store) : Short(n) = Short(remote[Len(remote)]) ]_vars

C25_ListOnlyDatasetAndClass ==
    /\ sj.list = "ok" =>
         /\ \A i \in 1..Len(sj.listed) :
              /\ sj.listed[i].ds = SourceDataset
              /\ sj.listed[i].cls = sj.cls
              /\ sj.listed[i].day # MalformedLabel
         /\ \A i, j \in 1..Len(sj.listed) :
              i < j => sj.listed[i].day < sj.listed[j].day
    /\ \A i \in 1..Len(sj.destroys) :
         /\ sj.destroys[i].name.ds = SourceDataset
         /\ sj.destroys[i].name.cls = sj.cls

\* C24: every call get(name, default) returns the value that the first
\* source holding the secret has at that moment (secret store file, local
\* file, environment variable), or the default of that call when none has
\* it.
C24_LayeredFallbackEveryCall ==
    [][ (sm'.calls = sm.calls + 1 /\ ~sm'.required) =>
            sm'.result = Lookup(sm, sm'.default) ]_vars

\* A value meets a validation schema: the declared type, the declared
\* range, the allowed values.
Satisfies(value, validation) ==
    /\ validation.type = "integer" => value.t = "int"
    /\ validation.type = "string" => value.t = "str"
    /\ validation.type = "boolean" => value.t = "bool"
    /\ (validation.range # <<>> /\ value.t = "int") =>
          (validation.range[1] <= value.v /\ value.v <= validation.range[2])
    /\ (validation.allowed # {} /\ value.t = "str") =>
          value.v \in validation.allowed

\* C23: whatever the file and the environment hold for a key that has a
\* default, the configuration manager resolves the key to a value that
\* meets the key's validation schema or to the key's default.
C23_BadValueFallsBack ==
    cm.loaded # "none" =>
        \/ Satisfies(cm.resolved, cm.key)
        \/ cm.resolved = cm.key.default

\* C22: whatever runs have succeeded or failed, a status response says
\* "healthy", tells of a job its id, name and next run time only, and echoes
\* of the configuration the dataset, the replication target and the bucket
\* only, none of them a secret or the key path.
C22_StatusIndependentOfHistory ==
    st.asked =>
        LET r == st.response
            echoed == {r.configuration.zfs_dataset,
                       r.configuration.lofn_target[1],
                       r.configuration.lofn_target[2],
                       r.configuration.b2_bucket}
        IN  /\ r.status = "healthy"
            /\ \A i \in 1..Len(r.scheduler.jobs) :
                 DOMAIN r.scheduler.jobs[i] = {"id", "name", "next_run"}
            /\ DOMAIN r.configuration = {"zfs_dataset", "lofn_target", "b2_bucket"}
            /\ r.configuration.zfs_dataset = SourceDataset
            /\ r.configuration.lofn_target = <<LofnHost, LofnDataset>>
            /\ r.configuration.b2_bucket = B2Bucket
            /\ echoed \cap {sm.docker, sm.local, sm.env, sm.cache, SshKeyPath} = {}

C22_Witness ==
    /\ st.asked
    /\ st.seen = "Failed"
    /\ sched.finished >= 1

=============================================================================
